---- MODULE Spec2Model ----
(***************************************************************************)
(* A model of roy2220/dynconf: a Watch keeps a locally published value in  *)
(* step with one key of a versioned key-value store (dynconf.go), polling  *)
(* it through a retry-with-backoff executor (retry.go).                    *)
(*                                                                         *)
(* Threads: the application thread (AddWatch, Remove), the background      *)
(* goroutine of the watch (keepValueUpToDate) and the store, whose key is  *)
(* written, deleted and briefly unreachable at any time.                   *)
(* Durations are in milliseconds; BackoffFactor and BackoffJitter are in   *)
(* tenths (20 is the code's 2.0, 5 its 0.5).                               *)
(***************************************************************************)
EXTENDS Integers, Sequences, FiniteSets, TLC

\* ---------------------------------------------------------------- bounds
\* The store's change index (raft index) runs up to MaxIndex; each restore
\* of the store takes one off the indexes still to come.
MaxIndex == 3
\* Well-formed payloads carry Foo in 1..MaxFoo.
MaxFoo == 2
\* How many store gets may fail (transport error, or key absent in a poll)
\* while the watch's context is live.
MaxFail == 1
\* How many times the store is restored from an earlier snapshot.
MaxRestore == 1
\* The retry harness: callback invocations per Do call, and Do calls.
MaxCalls == 3
MaxDo == 2
\* The retry harness draws MaxNumberOfAttempts from -1..MaxN and the
\* backoff fields from 0..MaxDur.
MaxN == 2
MaxDur == 3
\* The largest time.Duration (an int64 of nanoseconds in the code), scaled
\* to the model's integers: above every backoff a default policy reaches.
MaxDuration == 1000000

\* ------------------------------------------------------ program constants
DefaultMinBackoff == 100
DefaultMaxBackoff == 300000
DefaultBackoffFactor == 20
WatchBackoffJitter == 5

VARIABLES
    \* the store (external): the key's entry, the last change index used and
    \* the number of restores from a snapshot
    store, raft, restores, failBudget,
    \* the application thread
    caller, addGets, initResp, addErr,
    \* Watch fields
    value, valueIndex, ctxDone, wg, started,
    \* keepValueUpToDate's position and locals
    tpc, waitIndex, kvPair, oldValue,
    \* retry: the policy and Do's locals
    retry, attemptCount, backoff,
    \* what the value objects were told: per object id, the number of
    \* OnOutdated and of OnWatchRemoved calls
    outdated, watchRemoved,
    \* the retry harness: invocations of the callback in this Do call, the
    \* last invocation's result, backoff waits that elapsed, Do's return
    \* value and the number of Do calls
    calls, lastCb, waits, doRet, doCount,
    \* the entry (index and payload) the published value was decoded from
    valueFrom,
    \* the environment: the architecture the program was built for, and
    \* whether the context handed to AddWatch is cancelled
    arch, addCtxDone

watchVars == <<caller, addGets, initResp, addErr, value, valueIndex, wg, started,
               waitIndex, kvPair, oldValue, outdated, watchRemoved, valueFrom>>
storeVars == <<store, raft, restores, failBudget>>
retryVars == <<retry, attemptCount, backoff>>
harnessVars == <<calls, lastCb, waits, doRet, doCount>>
envVars == <<arch, addCtxDone>>
vars == <<store, raft, restores, failBudget, caller, addGets, initResp, addErr, value,
          valueIndex, ctxDone, wg, started, tpc, waitIndex, kvPair, oldValue,
          retry, attemptCount, backoff, outdated, watchRemoved,
          calls, lastCb, waits, doRet, doCount, valueFrom, arch, addCtxDone>>

\* ------------------------------------------------------------- payloads
\* A payload is the key's bytes: well-formed JSON carrying Foo, or not.
BadPayload == [wf |-> FALSE, foo |-> 0]
GoodPayloads == {[wf |-> TRUE, foo |-> f] : f \in 1..MaxFoo}
Payloads == GoodPayloads \cup {BadPayload}

\* Value.Unmarshal: an error on malformed bytes, else the decoded fields.
Unmarshal(data) ==
    IF data.wf THEN [err |-> FALSE, Foo |-> data.foo]
    ELSE [err |-> TRUE, Foo |-> 0]

\* The zero atomic.Value of a Watch that was never populated.
NoValue == [id |-> 0, Foo |-> 0]

\* A nil *api.KVPair.
NilKv == [present |-> FALSE, index |-> 0, data |-> BadPayload]

\* ---------------------------------------------------------------- retry
\* The zero retry struct with the fields of a literal set.
RetryLiteral(maxN, minB, maxB, factor, jitter) ==
    [MaxNumberOfAttempts |-> maxN, MinBackoff |-> minB, MaxBackoff |-> maxB,
     BackoffFactor |-> factor, BackoffJitter |-> jitter, normalized |-> FALSE]

\* retry.normalize, under normalizeOnce.
normalize(r) ==
    IF r.normalized THEN r
    ELSE LET minB == IF r.MinBackoff < 1 THEN DefaultMinBackoff ELSE r.MinBackoff
             maxB0 == IF r.MaxBackoff < 1 THEN DefaultMaxBackoff ELSE r.MaxBackoff
             maxB == IF maxB0 < minB THEN minB ELSE maxB0
             factor == IF r.BackoffFactor < 10 THEN DefaultBackoffFactor
                       ELSE r.BackoffFactor
             jit0 == IF r.BackoffJitter < 0 THEN 0 ELSE r.BackoffJitter
             jitter == IF jit0 > 10 THEN 10 ELSE jit0
         IN [MaxNumberOfAttempts |-> r.MaxNumberOfAttempts, MinBackoff |-> minB,
             MaxBackoff |-> maxB, BackoffFactor |-> factor,
             BackoffJitter |-> jitter, normalized |-> TRUE]

\* The smallest time.Duration.
MinDuration == -MaxDuration - 1

\* time.Duration(float64(bo) * factor): the product, truncated toward zero,
\* when a Duration can hold it. When it cannot, the result of the
\* conversion depends on the build: on amd64 it is the smallest Duration,
\* on arm64 the Duration nearest to the product.
ScaleDuration(bo, factor) ==
    LET mag == IF bo < 0 THEN -bo ELSE bo
        fits == factor <= (10 * MaxDuration + 9) \div mag
    IN IF fits
       THEN IF bo < 0 THEN -((mag * factor) \div 10) ELSE (mag * factor) \div 10
       ELSE IF arch = "amd64" \/ bo < 0 THEN MinDuration ELSE MaxDuration

\* The nominal backoff of the next wait, from the previous one.
NextBackoff(r, bo) ==
    IF bo = 0 THEN r.MinBackoff
    ELSE LET b == ScaleDuration(bo, r.BackoffFactor)
         IN IF b > r.MaxBackoff THEN r.MaxBackoff ELSE b

\* Exhausted with >= for ==.
Exhausted_AtLeast(r, ac) == ac >= r.MaxNumberOfAttempts

\* Whether Do gives up after the attempt that brings the count to ac.
Exhausted(r, ac) == ac = r.MaxNumberOfAttempts

\* AfterFailure with the exhaustion test before the increment.
AfterFailure_TestBeforeCount(r, ac, bo) ==
    IF Exhausted(r, ac)
    THEN [next |-> "exhausted", attemptCount |-> ac + 1, backoff |-> bo]
    ELSE [next |-> "wait", attemptCount |-> ac + 1, backoff |-> NextBackoff(r, bo)]

\* Do after the callback returned false: "exhausted" (return false, nil)
\* or "wait" (start the timer and select).
AfterFailure(r, ac, bo) ==
    IF Exhausted(r, ac + 1)
    THEN [next |-> "exhausted", attemptCount |-> ac + 1, backoff |-> bo]
    ELSE [next |-> "wait", attemptCount |-> ac + 1, backoff |-> NextBackoff(r, bo)]

\* The policy keepValueUpToDate builds.
WatchRetry == RetryLiteral(0, 0, 0, 0, WatchBackoffJitter)

\* An unbounded run of failed attempts is cut at this count: the timer of
\* the wait after that many failures does not fire.
AttemptCap == MaxFail + 1

\* ---------------------------------------------------------------- store
\* KV().Put: the key's entry at the next change index.
StorePut(d) ==
    /\ raft + restores < MaxIndex
    /\ raft' = raft + 1
    /\ store' = [present |-> TRUE, index |-> raft + 1, data |-> d]
    /\ UNCHANGED <<restores, failBudget, watchVars, ctxDone, tpc, retryVars,
                   harnessVars>>
    /\ UNCHANGED envVars

\* KV().Delete: the key is gone; the deletion takes a change index too.
StoreDelete ==
    /\ store.present
    /\ raft + restores < MaxIndex
    /\ raft' = raft + 1
    /\ store' = NilKv
    /\ UNCHANGED <<restores, failBudget, watchVars, ctxDone, tpc, retryVars,
                   harnessVars>>
    /\ UNCHANGED envVars

\* The store is restored from a snapshot taken at an earlier change index
\* k, in which the key held d: change indexes run on from k.
StoreRestore ==
    /\ restores < MaxRestore
    /\ \E k \in 1..(raft - 1), d \in Payloads :
         /\ raft' = k
         /\ store' = [present |-> TRUE, index |-> k, data |-> d]
    /\ restores' = restores + 1
    /\ UNCHANGED <<failBudget, watchVars, ctxDone, tpc, retryVars, harnessVars>>
    /\ UNCHANGED envVars

\* What KV().Get may return now under a context that is cancelled or not:
\* (kvPair, err). With a cancelled context the call fails (a response
\* that wins the race with the cancellation is the run in which the Get
\* returned before cancel()). Otherwise it
\* returns the key's entry (a blocking get returns at the latest on the
\* server's timeout, with whatever the key holds then; nil for an absent
\* key), or a transport error.
ErrResp == [err |-> TRUE, kv |-> NilKv]
GetResponses(cancelled) ==
    IF cancelled THEN {ErrResp}
    ELSE {[err |-> FALSE, kv |-> store], ErrResp}

\* ------------------------------------------------- Watcher.AddWatch
\* populateValue without the nil test on kvPair.
populateValue_NoNilCheck(resp) ==
    IF resp.err
    THEN [error |-> "kv_get_failed", Foo |-> 0, index |-> 0]
    ELSE LET u == Unmarshal(resp.kv.data)
         IN IF u.err
            THEN [error |-> "unmarshal_failed", Foo |-> 0, index |-> 0]
            ELSE [error |-> "none", Foo |-> u.Foo, index |-> resp.kv.index]

\* populateValue without the assignment of valueIndex.
populateValue_NoIndex(resp) ==
    IF resp.err
    THEN [error |-> "kv_get_failed", Foo |-> 0, index |-> 0]
    ELSE IF ~resp.kv.present
    THEN [error |-> "key_not_found", Foo |-> 0, index |-> 0]
    ELSE LET u == Unmarshal(resp.kv.data)
         IN IF u.err
            THEN [error |-> "unmarshal_failed", Foo |-> 0, index |-> 0]
            ELSE [error |-> "none", Foo |-> u.Foo, index |-> 0]

\* populateValue after its Get returned resp: the error it returns
\* ("none": nil) and, with no error, the decoded value and the index.
populateValue(resp) ==
    IF resp.err
    THEN [error |-> "kv_get_failed", Foo |-> 0, index |-> 0]
    ELSE IF ~resp.kv.present
    THEN [error |-> "key_not_found", Foo |-> 0, index |-> 0]
    ELSE LET u == Unmarshal(resp.kv.data)
         IN IF u.err
            THEN [error |-> "unmarshal_failed", Foo |-> 0, index |-> 0]
            ELSE [error |-> "none", Foo |-> u.Foo, index |-> resp.kv.index]

\* AddWatch is called (again, after a failed call): populateValue issues
\* its Get. w.ctx is still nil there, so the Get runs under the background
\* context, whatever context AddWatch was given.
AddWatch ==
    /\ caller \in {"idle", "add_failed"}
    /\ caller' = "populate"
    /\ addGets' = 1
    /\ addErr' = "none"
    /\ initResp' = ErrResp
    /\ UNCHANGED <<storeVars, value, valueIndex, wg, started, waitIndex, kvPair,
                   oldValue, outdated, watchRemoved, ctxDone, tpc, retryVars,
                   harnessVars>>
    /\ UNCHANGED <<valueFrom, envVars>>

\* setValue: a fresh value object holding Foo is stored in the slot.
NewValue(foo) == [id |-> Len(outdated) + 1, Foo |-> foo]

\* populateValue's Get returns and populateValue runs to its return: on an
\* error AddWatch returns (nil, err).
PopulateReturn ==
    /\ caller = "populate"
    /\ \E resp \in GetResponses(FALSE) :
         /\ resp.err => failBudget > 0
         /\ failBudget' = IF resp.err THEN failBudget - 1 ELSE failBudget
         /\ initResp' = resp
         /\ LET p == populateValue(resp)
            IN /\ addErr' = p.error
               /\ IF p.error = "none"
                  THEN /\ value' = NewValue(p.Foo)
                       /\ outdated' = Append(outdated, 0)
                       /\ watchRemoved' = Append(watchRemoved, 0)
                       /\ valueIndex' = p.index
                       /\ valueFrom' = resp.kv
                       /\ caller' = "add"
                  ELSE /\ caller' = "add_failed"
                       /\ UNCHANGED <<value, valueIndex, outdated, watchRemoved,
                                      valueFrom>>
    /\ UNCHANGED <<store, raft, restores, addGets, wg, started, waitIndex, kvPair,
                   oldValue,
                   ctxDone, tpc, retryVars, harnessVars>>
    /\ UNCHANGED envVars

\* Watch.add, and AddWatch returns the Watch: the context, the wait group
\* and the goroutine.
add ==
    /\ caller = "add"
    /\ ctxDone' = FALSE
    /\ wg' = wg + 1
    /\ started' = started + 1
    /\ tpc' = "loop"
    /\ caller' = "running"
    /\ initResp' = ErrResp
    /\ UNCHANGED <<storeVars, addGets, addErr, value, valueIndex, waitIndex,
                   kvPair, oldValue, outdated, watchRemoved, retryVars, harnessVars>>
    /\ UNCHANGED <<valueFrom, envVars>>

\* The application cancels the context it handed (or will hand) to
\* AddWatch. Neither populateValue nor add uses that context.
CancelAddCtx ==
    /\ ~addCtxDone
    /\ addCtxDone' = TRUE
    /\ UNCHANGED <<storeVars, watchVars, ctxDone, tpc, retryVars, harnessVars, arch>>

\* ------------------------------------------------------- Watch.Remove
\* Remove, the first call or a second one on the removed watch: w.cancel(),
\* which does nothing when the context is cancelled already.
Remove ==
    /\ caller \in {"running", "removed"}
    /\ ctxDone' = TRUE
    /\ caller' = IF caller = "running" THEN "remove_wait" ELSE "remove_wait2"
    /\ UNCHANGED <<storeVars, addGets, initResp, addErr, value, valueIndex, wg,
                   started, waitIndex, kvPair, oldValue, outdated, watchRemoved,
                   tpc, retryVars, harnessVars>>
    /\ UNCHANGED <<valueFrom, envVars>>

\* WaitReturns with Remove not waiting for the goroutine.
WaitReturns_NoWait == TRUE

\* Whether wg.Wait() returns.
WaitReturns == wg = 0

\* Remove: w.wg.Wait() returns, and so does Remove.
RemoveReturn ==
    /\ caller \in {"remove_wait", "remove_wait2"}
    /\ WaitReturns
    /\ caller' = IF caller = "remove_wait" THEN "removed" ELSE "removed2"
    /\ UNCHANGED <<storeVars, addGets, initResp, addErr, value, valueIndex, wg,
                   started, waitIndex, kvPair, oldValue, outdated, watchRemoved,
                   ctxDone, tpc, retryVars, harnessVars>>
    /\ UNCHANGED <<valueFrom, envVars>>

\* ------------------------------------------- Watch.keepValueUpToDate
\* The top of the loop: the query options take the tracked index as wait
\* baseline, and retry.Do starts (normalize, attemptCount, backoff).
LoopTop ==
    /\ tpc = "loop"
    /\ waitIndex' = valueIndex
    /\ kvPair' = NilKv
    /\ retry' = normalize(retry)
    /\ attemptCount' = 0
    /\ backoff' = 0
    /\ tpc' = "callback"
    /\ UNCHANGED <<storeVars, caller, addGets, initResp, addErr, value, valueIndex,
                   wg, started, oldValue, outdated, watchRemoved, ctxDone,
                   harnessVars>>
    /\ UNCHANGED <<valueFrom, envVars>>

\* Do invokes the callback, which issues the blocking Get.
CallbackGet ==
    /\ tpc = "callback"
    /\ tpc' = "get"
    /\ UNCHANGED <<storeVars, watchVars, ctxDone, retryVars, harnessVars>>
    /\ UNCHANGED envVars

\* The callback's result for a Get response: true once a value is obtained.
CallbackOk(resp) == ~resp.err /\ resp.kv.present

\* WatchCtx with the watch's context derived from the one AddWatch got.
WatchCtx_FromCaller(cancelled, callerDone) == cancelled \/ callerDone

\* Whether w.ctx is done: add() derives it from context.Background(), so
\* only the watch's own cancel() ends it.
WatchCtx(cancelled, callerDone) == cancelled

\* The Get returns and the callback with it. On true Do returns (true, nil);
\* on false Do counts the attempt and either returns (false, nil), after
\* which the loop reads the nil kvPair's ModifyIndex (a nil dereference), or
\* starts the backoff timer and waits.
GetReturn ==
    /\ tpc = "get"
    /\ \E resp \in GetResponses(WatchCtx(ctxDone, addCtxDone)) :
         /\ (~WatchCtx(ctxDone, addCtxDone) /\ ~CallbackOk(resp)) => failBudget > 0
         /\ failBudget' = IF ~WatchCtx(ctxDone, addCtxDone) /\ ~CallbackOk(resp)
                          THEN failBudget - 1 ELSE failBudget
         /\ kvPair' = resp.kv
         /\ IF CallbackOk(resp)
            THEN /\ tpc' = "check"
                 /\ UNCHANGED <<attemptCount, backoff>>
            ELSE LET f == AfterFailure(retry, attemptCount, backoff)
                 IN /\ attemptCount' = f.attemptCount
                    /\ backoff' = f.backoff
                    /\ tpc' = IF f.next = "exhausted" THEN "panic" ELSE "backoff"
    /\ UNCHANGED <<store, raft, restores, caller, addGets, initResp, addErr, value,
                   valueIndex, wg, started, waitIndex, oldValue, outdated,
                   watchRemoved, ctxDone, retry, harnessVars>>
    /\ UNCHANGED <<valueFrom, envVars>>

\* The select in Do: the timer fires, and Do invokes the callback again.
BackoffElapsed ==
    /\ tpc = "backoff"
    /\ attemptCount < AttemptCap
    /\ tpc' = "callback"
    /\ UNCHANGED <<storeVars, watchVars, ctxDone, retryVars, harnessVars>>
    /\ UNCHANGED envVars

\* The select in Do: ctx.Done() is ready; Do returns (false, ctx.Err())
\* and the loop goes to its exit.
BackoffCancelled ==
    /\ tpc = "backoff"
    /\ WatchCtx(ctxDone, addCtxDone)
    /\ tpc' = "on_removed"
    /\ UNCHANGED <<storeVars, watchVars, ctxDone, retryVars, harnessVars>>
    /\ UNCHANGED envVars

\* RemovedTarget with the value AddWatch populated.
RemovedTarget_Initial(cur) == 1

\* The object OnWatchRemoved is called on: the one w.Value() returns.
RemovedTarget(cur) == cur.id

\* The loop's exit: OnWatchRemoved on the current value, and return.
OnWatchRemoved ==
    /\ tpc = "on_removed"
    /\ watchRemoved' = [watchRemoved EXCEPT ![RemovedTarget(value)] = @ + 1]
    /\ tpc' = "ret"
    /\ UNCHANGED <<storeVars, caller, addGets, initResp, addErr, value, valueIndex,
                   wg, started, waitIndex, kvPair, oldValue, outdated, ctxDone,
                   retryVars, harnessVars>>
    /\ UNCHANGED <<valueFrom, envVars>>

\* WgAfterDone with the Done() left out.
WgAfterDone_Forgotten(n) == n

\* The wait group's counter after Done().
WgAfterDone(n) == n - 1

\* The goroutine's deferred wg.Done(), after keepValueUpToDate returned.
WgDone ==
    /\ tpc = "ret"
    /\ wg' = WgAfterDone(wg)
    /\ tpc' = "done"
    /\ UNCHANGED <<storeVars, caller, addGets, initResp, addErr, value, valueIndex,
                   started, waitIndex, kvPair, oldValue, outdated, watchRemoved,
                   ctxDone, retryVars, harnessVars>>
    /\ UNCHANGED <<valueFrom, envVars>>

\* SameVersion with the comparison left out.
SameVersion_Never(kv, cur) == FALSE

\* Whether the response carries the tracked version (the loop continues).
SameVersion(kv, cur) == kv.index = cur

\* Publishes with the decode error ignored.
Publishes_Always(kv) == TRUE

\* Whether the loop publishes the response's payload.
Publishes(kv) == ~Unmarshal(kv.data).err

\* Do returned (true, nil): the version test, the decode and the publish.
Check ==
    /\ tpc = "check"
    /\ IF SameVersion(kvPair, valueIndex)
       THEN /\ tpc' = "loop"
            /\ kvPair' = NilKv
            /\ UNCHANGED <<value, oldValue, outdated, watchRemoved, valueFrom>>
       ELSE IF Publishes(kvPair)
       THEN /\ oldValue' = value
            /\ value' = NewValue(Unmarshal(kvPair.data).Foo)
            /\ valueFrom' = kvPair
            /\ outdated' = Append(outdated, 0)
            /\ watchRemoved' = Append(watchRemoved, 0)
            /\ tpc' = "outdated"
            /\ UNCHANGED kvPair
       ELSE /\ tpc' = "tail"
            /\ UNCHANGED <<value, oldValue, outdated, watchRemoved, kvPair,
                           valueFrom>>
    /\ UNCHANGED <<storeVars, caller, addGets, initResp, addErr, valueIndex, wg,
                   started, waitIndex, ctxDone, retryVars, harnessVars>>
    /\ UNCHANGED envVars

\* OutdatedTarget with the notification sent to the new value.
OutdatedTarget_New(old, new) == new.id

\* The object OnOutdated is called on after a publish.
OutdatedTarget(old, new) == old.id

\* OnOutdated on the value that was replaced.
OnOutdated ==
    /\ tpc = "outdated"
    /\ outdated' = [outdated EXCEPT ![OutdatedTarget(oldValue, value)] = @ + 1]
    /\ tpc' = "tail"
    /\ UNCHANGED <<storeVars, caller, addGets, initResp, addErr, value, valueIndex,
                   wg, started, waitIndex, kvPair, oldValue, watchRemoved, ctxDone,
                   retryVars, harnessVars>>
    /\ UNCHANGED <<valueFrom, envVars>>

\* IndexAfter without the reset on a smaller index.
IndexAfter_NoReset(kv, cur) == kv.index

\* IndexAfter with the index kept when the payload did not decode.
IndexAfter_KeepOnDecodeFailure(kv, cur) ==
    IF ~kv.data.wf THEN cur
    ELSE IF kv.index < cur THEN 0 ELSE kv.index

\* The tracked index after an iteration that saw another version: the
\* response's index, or 0 when that is smaller than the tracked one.
IndexAfter(kv, cur) == IF kv.index < cur THEN 0 ELSE kv.index

\* The end of the iteration: the tracked index is set.
IndexUpdate ==
    /\ tpc = "tail"
    /\ valueIndex' = IndexAfter(kvPair, valueIndex)
    /\ kvPair' = NilKv
    /\ oldValue' = NoValue
    /\ tpc' = "loop"
    /\ UNCHANGED <<storeVars, caller, addGets, initResp, addErr, value, wg,
                   started, waitIndex, outdated, watchRemoved, ctxDone,
                   retryVars, harnessVars>>
    /\ UNCHANGED <<valueFrom, envVars>>

\* -------------------------------------------------------- specification
WatchInit(policy) ==
    /\ store = NilKv
    /\ raft = 0
    /\ restores = 0
    /\ failBudget = MaxFail
    /\ caller = "idle"
    /\ addGets = 0
    /\ initResp = ErrResp
    /\ addErr = "none"
    /\ value = NoValue
    /\ valueIndex = 0
    /\ ctxDone = FALSE
    /\ wg = 0
    /\ started = 0
    /\ tpc = "none"
    /\ waitIndex = 0
    /\ kvPair = NilKv
    /\ oldValue = NoValue
    /\ retry = policy
    /\ attemptCount = 0
    /\ backoff = 0
    /\ outdated = <<>>
    /\ watchRemoved = <<>>
    /\ calls = 0
    /\ lastCb = FALSE
    /\ waits = 0
    /\ doRet = "none"
    /\ doCount = 0
    /\ valueFrom = NilKv
    /\ arch = "amd64"
    /\ addCtxDone = FALSE

\* No watch yet; keepValueUpToDate will run with its policy.
Init == WatchInit(WatchRetry)

StoreNext == (\E d \in Payloads : StorePut(d)) \/ StoreDelete
CallerNext == AddWatch \/ PopulateReturn \/ add \/ Remove \/ RemoveReturn
TaskNext ==
    \/ LoopTop \/ CallbackGet \/ GetReturn \/ BackoffElapsed \/ BackoffCancelled
    \/ OnWatchRemoved \/ WgDone \/ Check \/ OnOutdated \/ IndexUpdate

Next == StoreNext \/ CallerNext \/ TaskNext

Spec == Init /\ [][Next]_vars

\* The same with restores of the store from a snapshot.
RestoreNext == Next \/ StoreRestore
RestoreSpec == Init /\ [][RestoreNext]_vars

\* The same, and the application cancels the context it gave AddWatch.
CtxNext == RestoreNext \/ CancelAddCtx
CtxSpec == Init /\ [][CtxNext]_vars

\* The loop with a policy that sets a maximum number of attempts, so that
\* Do can return each of its three outcomes to it.
BudgetInit ==
    \E n \in 0..MaxN : WatchInit(RetryLiteral(n, 0, 0, 0, WatchBackoffJitter))
BudgetSpec == BudgetInit /\ [][RestoreNext]_vars

\* Fairness: the Go scheduler runs the goroutine and the thread in Remove;
\* a blocking Get returns (at the latest on the server's timeout, or with
\* an error once its context is cancelled); a select that is entered again
\* and again with ctx.Done() ready takes that case.
Fairness ==
    /\ WF_vars(TaskNext)
    /\ SF_vars(BackoffCancelled)
    /\ WF_vars(RemoveReturn)
FairSpec == Spec /\ Fairness
FairRestoreSpec == RestoreSpec /\ Fairness

\* ----------------------------------------------------- retry.Do alone
\* retry.Do driven by a callback that returns either result, under a
\* context that is cancelled at any time (or was before the call).
RetryPolicies ==
    {RetryLiteral(n, lo, hi, f, WatchBackoffJitter) :
        n \in 0..MaxN, lo \in 0..MaxDur, hi \in 0..MaxDur, f \in {0, 10, 15, 20, 10 * MaxDuration}}

RetryInit ==
    /\ store = NilKv
    /\ raft = 0
    /\ restores = 0
    /\ failBudget = 0
    /\ caller = "idle"
    /\ addGets = 0
    /\ initResp = ErrResp
    /\ addErr = "none"
    /\ value = NoValue
    /\ valueIndex = 0
    /\ ctxDone \in BOOLEAN
    /\ wg = 0
    /\ started = 0
    /\ tpc = "h_idle"
    /\ waitIndex = 0
    /\ kvPair = NilKv
    /\ oldValue = NoValue
    /\ retry \in RetryPolicies
    /\ attemptCount = 0
    /\ backoff = 0
    /\ outdated = <<>>
    /\ watchRemoved = <<>>
    /\ calls = 0
    /\ lastCb = FALSE
    /\ waits = 0
    /\ doRet = "none"
    /\ doCount = 0
    /\ valueFrom = NilKv
    /\ arch \in {"amd64", "arm64"}
    /\ addCtxDone = FALSE

\* Do is called: normalize, attemptCount := 0, backoff := 0.
DoCall ==
    /\ tpc \in {"h_idle", "h_ret"}
    /\ doCount < MaxDo
    /\ doCount' = doCount + 1
    /\ retry' = normalize(retry)
    /\ attemptCount' = 0
    /\ backoff' = 0
    /\ calls' = 0
    /\ waits' = 0
    /\ lastCb' = FALSE
    /\ doRet' = "none"
    /\ tpc' = "h_call"
    /\ UNCHANGED <<storeVars, watchVars, ctxDone>>
    /\ UNCHANGED envVars

\* DoCallback with the context tested before each invocation.
DoCallback_CtxFirst(b) ==
    /\ tpc = "h_call"
    /\ calls < MaxCalls
    /\ IF ctxDone
       THEN /\ doRet' = "false,ctxErr"
            /\ tpc' = "h_ret"
            /\ UNCHANGED <<calls, lastCb, attemptCount, backoff>>
       ELSE /\ calls' = calls + 1
            /\ lastCb' = b
            /\ IF b
               THEN /\ doRet' = "true,nil"
                    /\ tpc' = "h_ret"
                    /\ UNCHANGED <<attemptCount, backoff>>
               ELSE LET f == AfterFailure(retry, attemptCount, backoff)
                    IN /\ attemptCount' = f.attemptCount
                       /\ backoff' = f.backoff
                       /\ doRet' = IF f.next = "exhausted" THEN "false,nil" ELSE "none"
                       /\ tpc' = IF f.next = "exhausted" THEN "h_ret" ELSE "h_wait"
    /\ UNCHANGED <<storeVars, watchVars, ctxDone, retry, waits, doCount>>
    /\ UNCHANGED envVars

\* Do invokes the callback, which returns b.
DoCallback(b) ==
    /\ tpc = "h_call"
    /\ calls < MaxCalls
    /\ calls' = calls + 1
    /\ lastCb' = b
    /\ IF b
       THEN /\ doRet' = "true,nil"
            /\ tpc' = "h_ret"
            /\ UNCHANGED <<attemptCount, backoff>>
       ELSE LET f == AfterFailure(retry, attemptCount, backoff)
            IN /\ attemptCount' = f.attemptCount
               /\ backoff' = f.backoff
               /\ doRet' = IF f.next = "exhausted" THEN "false,nil" ELSE "none"
               /\ tpc' = IF f.next = "exhausted" THEN "h_ret" ELSE "h_wait"
    /\ UNCHANGED <<storeVars, watchVars, ctxDone, retry, waits, doCount>>
    /\ UNCHANGED envVars

\* The select: the timer fires.
DoTimerFired ==
    /\ tpc = "h_wait"
    /\ waits' = waits + 1
    /\ tpc' = "h_call"
    /\ UNCHANGED <<storeVars, watchVars, ctxDone, retryVars, calls, lastCb, doRet,
                   doCount>>
    /\ UNCHANGED envVars

\* DoCtxDone returning a nil error.
DoCtxDone_NilErr ==
    /\ tpc = "h_wait"
    /\ ctxDone
    /\ doRet' = "false,nil"
    /\ tpc' = "h_ret"
    /\ UNCHANGED <<storeVars, watchVars, ctxDone, retryVars, calls, lastCb, waits,
                   doCount>>
    /\ UNCHANGED envVars

\* The select: ctx.Done() is ready; Do returns (false, ctx.Err()).
DoCtxDone ==
    /\ tpc = "h_wait"
    /\ ctxDone
    /\ doRet' = "false,ctxErr"
    /\ tpc' = "h_ret"
    /\ UNCHANGED <<storeVars, watchVars, ctxDone, retryVars, calls, lastCb, waits,
                   doCount>>
    /\ UNCHANGED envVars

\* The context given to Do is cancelled.
CtxCancel ==
    /\ ~ctxDone
    /\ ctxDone' = TRUE
    /\ UNCHANGED <<storeVars, watchVars, tpc, retryVars, harnessVars>>
    /\ UNCHANGED envVars

RetryNext ==
    \/ DoCall
    \/ \E b \in BOOLEAN : DoCallback(b)
    \/ DoTimerFired
    \/ DoCtxDone
    \/ CtxCancel

RetrySpec == RetryInit /\ [][RetryNext]_vars

\* =============================================================== claims
\* The goroutine holds a poll response it has not finished processing.
InHand == tpc \in {"check", "outdated", "tail"}

\* The iteration in progress failed to decode its response.
DecodeFailed == tpc = "tail" /\ ~kvPair.data.wf

\* A step in which the watch issues a store Get.
GetIssued ==
    \/ tpc # "get" /\ tpc' = "get"
    \/ caller # "populate" /\ caller' = "populate"

\* The watch was returned by AddWatch.
Returned == caller \in {"running", "remove_wait", "removed", "remove_wait2", "removed2"}

C2_NothingAfterRemove ==
    [][caller = "removed"
         => /\ ~GetIssued
            /\ outdated' = outdated
            /\ watchRemoved' = watchRemoved
            /\ value' = value
            /\ valueIndex' = valueIndex
            /\ tpc' = tpc]_vars

\* C2 witness: Remove() returned while the store holds a version the watch
\* never fetched, after the watch had published an update.
C2_Witness ==
    /\ caller = "removed"
    /\ Len(outdated) >= 2
    /\ store.present /\ store.data.wf /\ store.index > valueIndex

\* The running watch holds a poll response with payload d at an index
\* greater than the tracked one.
Received(d) ==
    /\ caller = "running"
    /\ tpc = "check"
    /\ kvPair.data = d
    /\ kvPair.index > valueIndex

\* The iteration that received payload d has published its decode and
\* notified, once, the value that was current before.
Updated(d) ==
    /\ tpc = "tail"
    /\ kvPair.data = d
    /\ value.Foo = Unmarshal(d).Foo
    /\ oldValue.id # value.id
    /\ oldValue.id \in DOMAIN outdated
    /\ outdated[oldValue.id] = 1

\* C3: when a running watch receives a well-formed payload at an index
\* greater than the tracked one, Value() eventually is the decode of that
\* payload and the value current before (oldValue, taken at the publish)
\* has had OnOutdated exactly once; no object ever has it twice.
C3_UpdatePublished ==
    /\ \A d \in GoodPayloads : Received(d) ~> Updated(d)
    /\ [][(tpc = "check" /\ tpc' = "outdated") => oldValue' = value]_vars
    /\ [](\A o \in DOMAIN outdated : outdated[o] <= 1)

\* C3 witness: the update was published and the replaced value notified.
C3_Witness ==
    /\ caller = "running"
    /\ tpc = "tail"
    /\ kvPair.data.wf
    /\ kvPair.index > valueIndex
    /\ Updated(kvPair.data)
    /\ outdated = <<1, 0>>

\* The goroutine still holds a well-formed response it has not finished
\* publishing (fetched before the store's entry changed).
GoodInHand == tpc \in {"check", "outdated"} /\ kvPair.data.wf

\* C4: while the store holds a malformed payload, Value() keeps the value
\* published before and no OnOutdated is invoked: no step of the watch
\* changes either, once the responses fetched before the malformed payload
\* was written have been processed.
C4_MalformedIgnored ==
    [][(/\ Returned
        /\ store.present /\ ~store.data.wf
        /\ store' = store
        /\ ~GoodInHand)
         => (value' = value /\ outdated' = outdated)]_vars

\* C4 witness: the watch has consumed the malformed payload and a further
\* poll returned it again; the first published value is still current and
\* was not notified.
C4_Witness ==
    /\ caller = "running"
    /\ tpc = "check"
    /\ kvPair = store
    /\ ~store.data.wf
    /\ valueIndex = store.index
    /\ value.id = 1
    /\ outdated = <<0>>

\* The entries the key can settle on with a well-formed payload.
GoodEntries ==
    {[present |-> TRUE, index |-> i, data |-> d] : i \in 1..MaxIndex, d \in GoodPayloads}

\* The goroutine has left its loop by the exit for a cancelled context.
Exited == tpc \in {"on_removed", "ret", "done"}

\* C5: when the watch is not removed and the key, after finitely many
\* store events (writes, malformed payloads, failed gets, deletion and
\* re-creation), settles on a well-formed entry, Value() eventually is and
\* stays the decode of that entry. A get that fails or finds the key absent
\* changes nothing and is retried after a backoff; while the key is absent
\* Value() does not change (but for a well-formed response fetched before
\* the deletion); the loop ends only by cancellation.
C5_Converges ==
    /\ \A e \in GoodEntries :
         <>[](store = e /\ caller = "running")
           => <>[](value.Foo = Unmarshal(e.data).Foo /\ valueIndex = e.index)
    /\ [][(tpc = "get" /\ tpc' # "get" /\ ~kvPair'.present)
            => (tpc' = "backoff" /\ value' = value /\ valueIndex' = valueIndex)]_vars
    /\ [][(Returned /\ ~store.present /\ ~store'.present /\ ~GoodInHand)
            => value' = value]_vars
    /\ [](tpc # "panic" /\ (Exited => ctxDone))

\* C5 witness: the Do call that fetched the settled entry had failed
\* attempts before it (the key was absent or unreachable), and its decode
\* is published.
C5_Witness ==
    /\ caller = "running"
    /\ tpc = "tail"
    /\ attemptCount > 0
    /\ kvPair = store
    /\ Updated(kvPair.data)

\* The error AddWatch returns for the response of its initial get.
ErrorFor(resp) ==
    IF resp.err THEN "kv_get_failed"
    ELSE IF ~resp.kv.present THEN "key_not_found"
    ELSE IF ~resp.kv.data.wf THEN "unmarshal_failed"
    ELSE "none"

\* C6: AddWatch fails, returning no Watch, when its initial get reports a
\* transport error, the key absent or a payload that does not decode, each
\* with its own error; it has then issued exactly one Get, started no
\* goroutine and published nothing, and nothing of the watch runs
\* afterwards. It goes on to add the watch only for a decodable payload.
C6_AddWatchFails ==
    /\ caller \in {"add_failed", "add"} => addErr = ErrorFor(initResp)
    /\ caller = "add_failed"
         => /\ addErr # "none"
            /\ addGets = 1
            /\ value = NoValue
            /\ tpc = "none"
            /\ started = 0
            /\ wg = 0
    /\ caller = "add" => addErr = "none"

\* C6 witness: AddWatch failed on a key that is absent.
C6_Witness ==
    /\ caller = "add_failed"
    /\ ~initResp.err
    /\ ~initResp.kv.present
    /\ addErr = "key_not_found"

\* C7: the Watch is fully initialized before AddWatch returns it: when
\* populateValue has returned nil the value is the decode of the fetched
\* payload and the tracked index the index the store reported; add() then
\* starts exactly one goroutine and changes neither; and in every state
\* after the return Value() is set.
C7_FullyInitialized ==
    /\ [](caller = "add"
            => /\ ~initResp.err
               /\ initResp.kv.present
               /\ ~Unmarshal(initResp.kv.data).err
               /\ value.id = 1
               /\ value.Foo = Unmarshal(initResp.kv.data).Foo
               /\ valueIndex = initResp.kv.index
               /\ started = 0)
    /\ [][(caller = "add" /\ caller' = "running")
            => /\ value' = value
               /\ valueIndex' = valueIndex
               /\ started' = 1
               /\ wg' = 1
               /\ tpc' = "loop"
               /\ ~ctxDone']_vars
    /\ [](Returned => (value # NoValue /\ value.id \in DOMAIN outdated /\ started = 1))

\* C7 witness: AddWatch has just returned the Watch of a key written twice.
C7_Witness ==
    /\ caller = "running"
    /\ tpc = "loop"
    /\ store.index = 2
    /\ valueIndex = 2
    /\ value = [id |-> 1, Foo |-> Unmarshal(store.data).Foo]
    /\ store.data.wf

\* C8: once Remove() has cancelled the context, the goroutine exits and
\* Remove() returns, whatever step the goroutine was in; Remove() does not
\* return before the goroutine's wg.Done().
C8_RemoveTerminates ==
    /\ (caller = "remove_wait") ~> (caller = "removed")
    /\ [](caller = "removed" => (tpc = "done" /\ wg = 0))

\* C8 witness: Remove() returned after the goroutine, cancelled while it
\* held a fresh response, published it, polled again with the cancelled
\* context and left from the backoff wait.
C8_Witness ==
    /\ caller = "removed"
    /\ tpc = "done"
    /\ attemptCount = 1
    /\ value.id = 2
    /\ valueIndex = store.index
    /\ watchRemoved = <<0, 1>>

\* The invocations of the callback that returned false in this Do call.
FailedCalls == calls - (IF lastCb THEN 1 ELSE 0)

\* C9: Do returns one of three outcomes: (true, nil) exactly when the last
\* invocation returned true; (false, nil) exactly when the failed
\* invocations reached the configured maximum; (false, ctx.Err()) exactly
\* when the wait after a failed invocation ended on the cancelled context.
\* It invokes the callback again only after a false result and an elapsed
\* wait.
C9_TriState ==
    /\ tpc = "h_ret"
         => /\ doRet \in {"true,nil", "false,nil", "false,ctxErr"}
            /\ (doRet = "true,nil") <=> lastCb
            /\ (doRet = "false,nil")
                 <=> (retry.MaxNumberOfAttempts > 0
                      /\ FailedCalls = retry.MaxNumberOfAttempts)
            /\ (doRet = "false,ctxErr")
                 <=> (~lastCb /\ ctxDone /\ FailedCalls # retry.MaxNumberOfAttempts)
            /\ (doRet = "false,ctxErr") => waits = calls - 1
    /\ tpc \in {"h_call", "h_wait", "h_ret"} => (calls <= waits + 1 /\ waits <= calls)
    /\ (tpc = "h_call" /\ calls > 0) => (~lastCb /\ waits = calls)
    /\ tpc = "h_wait" => (~lastCb /\ waits = calls - 1)

\* C9 witness: Do returned the context's error from its second wait.
C9_Witness ==
    /\ tpc = "h_ret"
    /\ doRet = "false,ctxErr"
    /\ calls = 2
    /\ waits = 1

\* C10: with a maximum N > 0 Do invokes the callback at most N times and
\* reports exhaustion right after the N-th failure, without another wait;
\* a success on any invocation is reported as success; with the maximum 0
\* exhaustion is never reported and every failure is followed by a wait.
C10_AttemptBudget ==
    LET N == retry.MaxNumberOfAttempts
    IN /\ (N > 0 /\ tpc \in {"h_call", "h_wait", "h_ret"}) => calls <= N
       /\ (tpc = "h_ret" /\ doRet = "false,nil")
            => (N > 0 /\ calls = N /\ waits = N - 1 /\ ~lastCb)
       /\ (N > 0 /\ tpc = "h_wait") => calls < N
       /\ (tpc = "h_ret" /\ lastCb) => doRet = "true,nil"
       /\ (N = 0 /\ tpc = "h_ret") => doRet # "false,nil"
       /\ (N = 0 /\ tpc \in {"h_call", "h_wait", "h_ret"} /\ calls > 0 /\ ~lastCb)
            => (tpc \in {"h_call", "h_wait"} \/ doRet = "false,ctxErr")

\* C10 witness: with a maximum of 2, Do reported exhaustion after the
\* second failure.
C10_Witness ==
    /\ tpc = "h_ret"
    /\ retry.MaxNumberOfAttempts = 2
    /\ doRet = "false,nil"
    /\ calls = 2

\* min(prev * factor, maxB) for a positive prev, with the product truncated
\* to a whole Duration and computed without regard to a Duration's width.
CappedProduct(prev, factor, maxB) ==
    IF factor >= (10 * maxB + prev - 1) \div prev THEN maxB
    ELSE (prev * factor) \div 10

\* C11: within one Do call the nominal backoff of the first wait is
\* MinBackoff and that of each later wait is min(previous * BackoffFactor,
\* MaxBackoff); so it never decreases and stays within
\* [MinBackoff, MaxBackoff]; and a new Do call starts over (backoff 0, so
\* its first wait is MinBackoff again). The code breaks this when the
\* product is too large for a Duration.
C11_NominalBackoff ==
    [][/\ (doCount' # doCount) => backoff' = 0
       /\ (tpc = "h_call" /\ tpc' = "h_wait") =>
            /\ backoff' >= backoff
            /\ retry.MinBackoff <= backoff'
            /\ backoff' <= retry.MaxBackoff
            /\ (backoff = 0) => backoff' = retry.MinBackoff
            /\ (backoff > 0) =>
                 backoff' = CappedProduct(backoff, retry.BackoffFactor,
                                          retry.MaxBackoff)]_vars


\* C12: the goroutine leaves its loop only after Remove() was called:
\* neither failed gets, an absent key, decode failures, index regressions
\* nor the cancellation of the context given to AddWatch end it (and it
\* does not die of a nil dereference either).
C12_ExitsOnlyAfterRemove ==
    /\ tpc \in {"on_removed", "ret", "done"} => (Returned /\ caller # "running")
    /\ tpc # "panic"
    /\ caller = "running" => tpc \notin {"none", "on_removed", "ret", "done"}

\* C12 witness: the watch polls on although the context given to AddWatch
\* is cancelled, the store was restored to an earlier index, gets failed
\* and a malformed payload was seen, and it has published since.
C12_Witness ==
    /\ caller = "running"
    /\ addCtxDone
    /\ restores > 0
    /\ failBudget = 0
    /\ tpc = "get"
    /\ valueIndex # valueFrom.index
    /\ Len(outdated) >= 2


RemoveReturned == caller \in {"removed", "remove_wait2", "removed2"}

\* C14: when the loop ends on the cancellation, OnWatchRemoved is called
\* exactly once, on the value that is current then, before Remove()
\* returns; never while the watch's context is live; and a second
\* Remove() causes no further call.
C14_WatchRemovedOnce ==
    /\ [](\A o \in 1..Len(watchRemoved) :
             watchRemoved[o] = (IF o = value.id /\ tpc \in {"ret", "done"}
                                THEN 1 ELSE 0))
    /\ [](RemoveReturned => (tpc = "done" /\ watchRemoved[value.id] = 1))
    /\ [](~ctxDone => tpc \notin {"on_removed", "ret", "done"})
    /\ [][RemoveReturned => watchRemoved' = watchRemoved]_vars

\* C14 witness: a second Remove() returned; the value published last, not
\* the first one, was told once.
C14_Witness ==
    /\ caller = "removed2"
    /\ value.id >= 2
    /\ watchRemoved[value.id] = 1


\* C15: a value is replaced in the slot before it is told: while
\* OnOutdated is being invoked on a value object, and ever after, Value()
\* returns another object.
C15_PublishBeforeNotify ==
    /\ tpc = "outdated" => /\ OutdatedTarget(oldValue, value) # value.id
                           /\ OutdatedTarget(oldValue, value) \in 1..Len(outdated)
    /\ \A o \in 1..Len(outdated) : outdated[o] >= 1 => value.id # o

\* C15 witness: OnOutdated is about to be invoked on the second published
\* value while the slot already holds the third.
C15_Witness ==
    /\ tpc = "outdated"
    /\ oldValue.id = 2
    /\ value.id = 3
    /\ outdated[1] = 1


\* C16: an iteration whose response carries an index smaller than the
\* tracked one ends with the tracked index 0, and the next blocking get
\* is issued with baseline 0; no other step lowers the tracked index.
C16_RegressionResetsIndex ==
    [][/\ (tpc = "tail" /\ tpc' # "tail" /\ kvPair.index < valueIndex)
            => (valueIndex' = 0 /\ tpc' = "loop")
       /\ ~(tpc = "tail" /\ kvPair.index < valueIndex)
            => valueIndex' >= valueIndex
       /\ (tpc = "loop" /\ tpc' # "loop")
            => (waitIndex' = valueIndex /\ tpc' = "callback")
       /\ (tpc = "callback" /\ tpc' # "callback")
            => (tpc' = "get" /\ waitIndex' = waitIndex)
      ]_vars

\* C16 witness: after a response with a smaller index the blocking get is
\* out with baseline 0 (AddWatch never leaves the index at 0).
C16_Witness ==
    /\ tpc = "get"
    /\ waitIndex = 0
    /\ valueIndex = 0
    /\ restores > 0
    /\ store.present


\* C17: a successful response whose index equals the tracked one changes
\* nothing: no publish (no new value object), no notification, the same
\* tracked index; the loop goes back to its top and the next blocking get
\* is issued with the same baseline, in a fresh Do call, without a backoff
\* wait before it.
C17_SameIndexNoChange ==
    [][/\ (tpc = "check" /\ kvPair.index = valueIndex)
            => /\ waitIndex = valueIndex
               /\ value' = value
               /\ valueIndex' = valueIndex
               /\ outdated' = outdated
               /\ watchRemoved' = watchRemoved
               /\ tpc' # "check" => tpc' = "loop"
       /\ (tpc = "loop" /\ tpc' # "loop")
            => /\ tpc' = "callback"
               /\ waitIndex' = valueIndex
               /\ attemptCount' = 0
               /\ backoff' = 0
       /\ (tpc = "callback" /\ tpc' # "callback")
            => (tpc' = "get" /\ waitIndex' = waitIndex)
      ]_vars

\* C17 witness: a blocking get returned the entry the published value came
\* from, unchanged, after an update had been published.
C17_Witness ==
    /\ tpc = "check"
    /\ kvPair.index = valueIndex
    /\ kvPair = valueFrom
    /\ value.id >= 2


\* C18: every published value object is told at most once in all, never
\* by both callbacks; once Remove() has returned, every published object
\* but the last has had exactly one OnOutdated and no OnWatchRemoved, and
\* the last exactly one OnWatchRemoved and no OnOutdated.
C18_OneNotificationEach ==
    /\ Len(watchRemoved) = Len(outdated)
    /\ \A o \in 1..Len(outdated) : outdated[o] + watchRemoved[o] <= 1
    /\ RemoveReturned =>
         /\ value.id = Len(outdated)
         /\ \A o \in 1..Len(outdated) :
              IF o < Len(outdated)
              THEN outdated[o] = 1 /\ watchRemoved[o] = 0
              ELSE outdated[o] = 0 /\ watchRemoved[o] = 1

\* C18 witness: Remove() returned after three values were published, one
\* of them after a restore of the store.
C18_Witness ==
    /\ caller = "removed"
    /\ Len(outdated) = 3
    /\ restores > 0
    /\ outdated = <<1, 1, 0>>
    /\ watchRemoved = <<0, 0, 1>>


\* A step of the loop that publishes the response in hand.
PublishStep == tpc = "check" /\ tpc' = "outdated"

\* C19 (as stated): a store state (index, payload) that has been published
\* is never published again, not even after a response with an index
\* smaller than the tracked one: in particular the loop never publishes
\* the very entry the current value was decoded from.
C19_PublishedAtMostOnce ==
    [][PublishStep => kvPair # valueFrom]_vars

\* C19 (amended): while the store's index has only grown, every publish is
\* of an entry with a larger index than the tracked one and than that of
\* the entry published before, so no store state is published twice. A
\* response with a smaller index is published, the baseline becomes 0, and
\* the next response, whatever its index, is published as well, be it the
\* same entry again.
C19_AtMostOnceWhileIndexGrows ==
    [][/\ (PublishStep /\ restores = 0)
            => (kvPair.index > valueIndex /\ kvPair.index > valueFrom.index)
       /\ (PublishStep /\ valueIndex = 0) => restores > 0
       /\ (tpc = "check" /\ valueIndex = 0 /\ kvPair.data.wf) => tpc' # "loop"
      ]_vars

\* C19 witness: the entry just published, fetched with baseline 0 after a
\* response with a smaller index, is being published a second time.
C19_Witness ==
    /\ tpc = "outdated"
    /\ valueIndex = 0
    /\ kvPair = valueFrom
    /\ kvPair = store
    /\ oldValue.Foo = value.Foo
    /\ value.id >= 3


\* C20: Do looks at the context only in the backoff wait. Where it is
\* about to invoke the callback it invokes it, cancelled context or not,
\* and returns (true, nil) if the callback returns true; it returns the
\* context's error only from a wait, so after an invocation that returned
\* false; and once it has returned it invokes nothing more.
C20_CancellationOnlyInWait ==
    [][/\ (tpc = "h_call" /\ tpc' # "h_call")
            => /\ calls' = calls + 1
               /\ doRet' # "false,ctxErr"
               /\ lastCb' => (doRet' = "true,nil" /\ tpc' = "h_ret")
       /\ (doRet # "false,ctxErr" /\ doRet' = "false,ctxErr")
            => /\ tpc = "h_wait"
               /\ ctxDone
               /\ calls >= 1
               /\ ~lastCb
               /\ calls' = calls
               /\ tpc' = "h_ret"
       /\ (tpc = "h_ret" /\ doCount' = doCount)
            => (calls' = calls /\ doRet' = doRet)
      ]_vars

\* C20 witness: under a cancelled context a Do call invoked the callback
\* once, without any wait, and returned (true, nil).
C20_Witness ==
    /\ ctxDone
    /\ tpc = "h_ret"
    /\ doRet = "true,nil"
    /\ calls = 1
    /\ waits = 0
    /\ doCount = 2

====
